---- MODULE Spec2Model ----
(***************************************************************************)
(* State container of the task-list application (src/app/index.jsx): the   *)
(* "ui" slice, the "todos" slice, the combined store and the event         *)
(* handlers of the presentation layer that dispatch into it.               *)
(*                                                                         *)
(* Text is modelled as a sequence of one-character strings so that         *)
(* String.prototype.trim is a computation, not the identity.               *)
(***************************************************************************)
EXTENDS Integers, Sequences, FiniteSets, TLC

\* ------------------------------------------------------------------ bounds
\* Number of ids nanoid() hands out before the model stops adding tasks.
MaxIds == 2
\* Date.now() returns a value in 0..MaxClock.
MaxClock == 1

IdPool == 1..MaxIds
Times == 0..MaxClock

\* Texts the user can have typed into the "What needs doing?" field.
TitleInputs ==
    { <<>>, <<" ", " ", " ">>, <<"a">>, <<" ", "a", " ">> }

\* ------------------------------------------------------------------- state
VARIABLES
    ui,         \* store.getState().ui
    items,      \* store.getState().todos.items
    title,      \* TodosCard's useState("") text
    issued,     \* number of calls of nanoid() so far
    addLog,     \* history: ids of the records created, oldest first
    last,       \* history: the last event handled
    before      \* history: ui and items as they were when that event began

vars == <<ui, items, title, issued, addLog, last, before>>

\* ------------------------------------------------------------ text helpers
IsSpace(c) == c = " "

RECURSIVE TrimStart(_)
TrimStart(s) ==
    IF s = <<>> THEN <<>>
    ELSE IF IsSpace(Head(s)) THEN TrimStart(Tail(s))
    ELSE s

RECURSIVE TrimEnd(_)
TrimEnd(s) ==
    IF s = <<>> THEN <<>>
    ELSE IF IsSpace(s[Len(s)]) THEN TrimEnd(SubSeq(s, 1, Len(s) - 1))
    ELSE s

\* variant: the text is used as typed
TrimNothing(s) == s

\* variant: trimStart in place of trim
TrimStartOnly(s) == TrimStart(s)

\* String.prototype.trim
Trim(s) == TrimEnd(TrimStart(s))

\* ---------------------------------------------------------------- ui slice
uiInitialState ==
    [ darkMode |-> FALSE,
      showBanner |-> TRUE,
      doneNotificationVisible |-> FALSE,
      undoNotificationVisible |-> FALSE ]

toggleDarkMode(state) == [state EXCEPT !.darkMode = ~state.darkMode]

\* variant: the banner flag is flipped instead of cleared
dismissBannerFlips(state) == [state EXCEPT !.showBanner = ~state.showBanner]

dismissBanner(state) == [state EXCEPT !.showBanner = FALSE]

showDoneNotification(state) == [state EXCEPT !.doneNotificationVisible = TRUE]

dismissDoneNotification(state) == [state EXCEPT !.doneNotificationVisible = FALSE]

\* variant: showing the undo banner takes the done banner down
showUndoHidesDone(state) ==
    [state EXCEPT !.undoNotificationVisible = TRUE,
                  !.doneNotificationVisible = FALSE]

showUndoNotification(state) == [state EXCEPT !.undoNotificationVisible = TRUE]

\* variant: dismissing the undo banner hides the done banner too
dismissUndoClearsBoth(state) ==
    [state EXCEPT !.undoNotificationVisible = FALSE,
                  !.doneNotificationVisible = FALSE]

dismissUndoNotification(state) == [state EXCEPT !.undoNotificationVisible = FALSE]

\* ------------------------------------------------------------- todos slice
todosInitialItems == <<>>

\* nanoid(): the n-th call returns the n-th id; ids are only compared for
\* equality, so which fresh value comes back does not matter.
nanoid(n) == n + 1

\* variant: the creation time serves as the id
prepareClockId(t, id, now) ==
    [ id |-> now + 1, title |-> t, done |-> FALSE, createdAt |-> now ]

\* addTodo.prepare
prepare(t, id, now) ==
    [ id |-> id, title |-> t, done |-> FALSE, createdAt |-> now ]

\* variant: push in place of unshift
addTodoPush(its, payload) == Append(its, payload)

\* variant: the new record goes behind the current head
addTodoSecond(its, payload) ==
    IF its = <<>> THEN <<payload>>
    ELSE <<Head(its), payload>> \o Tail(its)

\* addTodo.reducer: state.items.unshift(action.payload)
addTodo(its, payload) == <<payload>> \o its

\* Array.prototype.find: index of the first element with that id, 0 if none
FindIndex(its, id) ==
    IF \E i \in 1..Len(its) : its[i].id = id
    THEN CHOOSE i \in 1..Len(its) :
            /\ its[i].id = id
            /\ \A j \in 1..(i - 1) : its[j].id # id
    ELSE 0

\* variant: the record is marked done instead of flipped
toggleTodoSetsDone(its, id) ==
    LET i == FindIndex(its, id) IN
    IF i # 0 THEN [its EXCEPT ![i].done = TRUE] ELSE its

\* variant: a miss falls through to the first record
toggleTodoMissHitsHead(its, id) ==
    LET i == FindIndex(its, id) IN
    IF i # 0 THEN [its EXCEPT ![i].done = ~its[i].done]
    ELSE IF its # <<>> THEN [its EXCEPT ![1].done = ~its[1].done]
    ELSE its

\* variant: the record is rebuilt and loses its creation time
toggleTodoRebuilds(its, id) ==
    LET i == FindIndex(its, id) IN
    IF i # 0
    THEN [its EXCEPT ![i] = prepare(its[i].title, its[i].id, 0)]
    ELSE its

\* variant: every record is flipped once the id is found
toggleTodoFlipsAll(its, id) ==
    IF FindIndex(its, id) # 0
    THEN [i \in 1..Len(its) |-> [its[i] EXCEPT !.done = ~its[i].done]]
    ELSE its

\* toggleTodo: find the record, flip done if found
toggleTodo(its, id) ==
    LET i == FindIndex(its, id) IN
    IF i # 0 THEN [its EXCEPT ![i].done = ~its[i].done] ELSE its

\* variant: the filter keeps the matching record instead of dropping it
removeTodoKeepsMatch(its, id) == SelectSeq(its, LAMBDA x : x.id = id)

\* state.items.filter((x) => x.id !== action.payload)
removeTodo(its, id) == SelectSeq(its, LAMBDA x : x.id # id)

\* -------------------------------------------------------------------- store
\* an action object as the slice's action creators build it; payload is 0
\* where the creator takes no argument
Action(type, payload) == [type |-> type, payload |-> payload]

\* uiSlice.reducer: the case reducer of the action's type, else the state as is
uiReducer(state, action) ==
    CASE action.type = "ui/toggleDarkMode" -> toggleDarkMode(state)
      [] action.type = "ui/dismissBanner" -> dismissBanner(state)
      [] action.type = "ui/showDoneNotification" -> showDoneNotification(state)
      [] action.type = "ui/dismissDoneNotification" -> dismissDoneNotification(state)
      [] action.type = "ui/showUndoNotification" -> showUndoNotification(state)
      [] action.type = "ui/dismissUndoNotification" -> dismissUndoNotification(state)
      [] OTHER -> state

\* todosSlice.reducer, on the items of its state
todosReducer(its, action) ==
    CASE action.type = "todos/addTodo" -> addTodo(its, action.payload)
      [] action.type = "todos/toggleTodo" -> toggleTodo(its, action.payload)
      [] action.type = "todos/removeTodo" -> removeTodo(its, action.payload)
      [] OTHER -> its

\* configureStore({reducer: {ui, todos}}): every slice sees every action
rootReducer(state, action) ==
    [ ui |-> uiReducer(state.ui, action),
      items |-> todosReducer(state.items, action) ]

\* ------------------------------------------------------------ derived views
\* variant: the negation is missing
pendingNoNegation(its) == SelectSeq(its, LAMBDA x : x.done)

\* TodosCard: s.todos.items.filter((item) => !item.done)
pending(its) == SelectSeq(its, LAMBDA x : ~x.done)

\* variant: the done card lists every record
completedAll(its) == its

\* DoneCard: s.todos.items.filter((item) => item.done)
completed(its) == SelectSeq(its, LAMBDA x : x.done)

\* ----------------------------------------------------------------- history
\* op: the handler; id, text: its argument; again: a toggle of the id that
\* the event right before it toggled too
IdEvent(op, id) == [op |-> op, id |-> id, text |-> <<>>, again |-> FALSE]

\* an event without an id argument: id 0 is no record's id
Event(op, text) == [op |-> op, id |-> 0, text |-> text, again |-> FALSE]

IsToggle(e) == e.op \in {"handleDone", "undoPress"}

ToggleEvent(op, id) ==
    [op |-> op, id |-> id, text |-> <<>>, again |-> IsToggle(last) /\ last.id = id]

Snapshot == [ui |-> ui, items |-> items]

\* store.dispatch(action): the store's state becomes next
Dispatched(next) ==
    /\ ui' = next.ui
    /\ items' = next.items

Ids(its) == {its[i].id : i \in 1..Len(its)}

\* -------------------------------------------------------------------- Init
Init ==
    /\ ui = uiInitialState
    /\ items = todosInitialItems
    /\ title = <<>>
    /\ issued = 0
    /\ addLog = <<>>
    /\ last = Event("init", <<>>)
    /\ before = [ui |-> uiInitialState, items |-> todosInitialItems]

\* ---------------------------------------------------------------- handlers
\* TextInput onChangeText={setTitle}
onChangeText(t) ==
    /\ title' = t
    /\ last' = Event("onChangeText", t)
    /\ before' = Snapshot
    /\ UNCHANGED <<ui, items, issued, addLog>>

\* TodosCard.addTask (Add button, onSubmitEditing)
addTask ==
    /\ last' = Event("addTask", title)
    /\ before' = Snapshot
    /\ IF Trim(title) = <<>>
       THEN UNCHANGED <<ui, items, title, issued, addLog>>
       ELSE /\ issued < MaxIds
            /\ \E now \in Times :
                 LET payload == prepare(Trim(title), nanoid(issued), now) IN
                 /\ Dispatched(rootReducer(Snapshot, Action("todos/addTodo", payload)))
                 /\ addLog' = Append(addLog, payload.id)
            /\ issued' = issued + 1
            /\ title' = <<>>

\* TodosCard.handleDone (DONE button)
handleDone(id) ==
    /\ LET toggled == rootReducer(Snapshot, Action("todos/toggleTodo", id)) IN
       Dispatched(rootReducer(toggled, Action("ui/showDoneNotification", 0)))
    /\ last' = ToggleEvent("handleDone", id)
    /\ before' = Snapshot
    /\ UNCHANGED <<title, issued, addLog>>

\* DoneCard Undo button
undoPress(id) ==
    /\ LET toggled == rootReducer(Snapshot, Action("todos/toggleTodo", id)) IN
       Dispatched(rootReducer(toggled, Action("ui/showUndoNotification", 0)))
    /\ last' = ToggleEvent("undoPress", id)
    /\ before' = Snapshot
    /\ UNCHANGED <<title, issued, addLog>>

\* Remove button of either card
removePress(id) ==
    /\ Dispatched(rootReducer(Snapshot, Action("todos/removeTodo", id)))
    /\ last' = IdEvent("removePress", id)
    /\ before' = Snapshot
    /\ UNCHANGED <<title, issued, addLog>>

\* DarkModeSwitch onValueChange
darkModeSwitch ==
    /\ Dispatched(rootReducer(Snapshot, Action("ui/toggleDarkMode", 0)))
    /\ last' = Event("darkModeSwitch", <<>>)
    /\ before' = Snapshot
    /\ UNCHANGED <<title, issued, addLog>>

\* intro banner "Got it"
bannerGotIt ==
    /\ Dispatched(rootReducer(Snapshot, Action("ui/dismissBanner", 0)))
    /\ last' = Event("bannerGotIt", <<>>)
    /\ before' = Snapshot
    /\ UNCHANGED <<title, issued, addLog>>

\* done banner "Got it"
doneGotIt ==
    /\ Dispatched(rootReducer(Snapshot, Action("ui/dismissDoneNotification", 0)))
    /\ last' = Event("doneGotIt", <<>>)
    /\ before' = Snapshot
    /\ UNCHANGED <<title, issued, addLog>>

\* undo banner "Got it"
undoGotIt ==
    /\ Dispatched(rootReducer(Snapshot, Action("ui/dismissUndoNotification", 0)))
    /\ last' = Event("undoGotIt", <<>>)
    /\ before' = Snapshot
    /\ UNCHANGED <<title, issued, addLog>>

Next ==
    \/ \E t \in TitleInputs : onChangeText(t)
    \/ addTask
    \/ \E id \in IdPool : handleDone(id)
    \/ \E id \in IdPool : undoPress(id)
    \/ \E id \in IdPool : removePress(id)
    \/ darkModeSwitch
    \/ bannerGotIt
    \/ doneGotIt
    \/ undoGotIt

Spec == Init /\ [][Next]_vars

\* ------------------------------------------------- presses on rendered rows
\* The screen as rendered from the current state: a DONE button per record of
\* TodosCard's items, an Undo button per record of DoneCard's items, a Remove
\* button per record of either, and each banner only while its flag is set.
\* Every event is handled against that screen, one event at a time.
pressDone == \E id \in Ids(pending(items)) : handleDone(id)

pressUndo == \E id \in Ids(completed(items)) : undoPress(id)

pressRemove ==
    \E id \in Ids(pending(items)) \cup Ids(completed(items)) : removePress(id)

pressBannerGotIt == ui.showBanner /\ bannerGotIt

pressDoneGotIt == ui.doneNotificationVisible /\ doneGotIt

pressUndoGotIt == ui.undoNotificationVisible /\ undoGotIt

NextUI ==
    \/ \E t \in TitleInputs : onChangeText(t)
    \/ addTask
    \/ pressDone
    \/ pressUndo
    \/ pressRemove
    \/ darkModeSwitch
    \/ pressBannerGotIt
    \/ pressDoneGotIt
    \/ pressUndoGotIt

SpecUI == Init /\ [][NextUI]_vars

\* ============================================================= properties
\* Text that trim reduces to "": nothing but white space.
IsBlank(s) == \A i \in 1..Len(s) : IsSpace(s[i])

\* The last event was an Add press with a usable title, and a record was made.
Added == last.op = "addTask" /\ ~IsBlank(last.text)

Range(s) == {s[i] : i \in 1..Len(s)}

Count(s, x) == Cardinality({i \in 1..Len(s) : s[i] = x})

\* s is t with some elements left out, the others in the order they have in t
RECURSIVE IsSubseq(_, _)
IsSubseq(s, t) ==
    IF s = <<>> THEN TRUE
    ELSE IF t = <<>> THEN FALSE
    ELSE IF Head(s) = Head(t) THEN IsSubseq(Tail(s), Tail(t))
    ELSE IsSubseq(s, Tail(t))

\* position of id in the creation log, 0 if it was never created
Pos(log, id) ==
    IF \E k \in 1..Len(log) : log[k] = id
    THEN CHOOSE k \in 1..Len(log) : log[k] = id
    ELSE 0

C2_BlankAddIgnored ==
    (last.op = "addTask" /\ IsBlank(last.text)) =>
        items = before.items

C2_Witness ==
    /\ last.op = "addTask"
    /\ last.text = <<" ", " ", " ">>
    /\ Len(items) >= 1

\* C3: two toggles of the same id, one right after the other, of an id that
\* is in the list give back the list as it was before the first of them.
C3_ToggleTwice ==
    [][ (IsToggle(last') /\ last'.again /\ last'.id \in Ids(before.items))
          => items' = before.items ]_vars

C3_Witness ==
    /\ IsToggle(last)
    /\ last.again
    /\ last.id \in Ids(items)
    /\ Len(items) >= 2

\* C4: a toggle of an id that no record has leaves the list as it was.
C4_ToggleUnknownIgnored ==
    (IsToggle(last) /\ last.id \notin Ids(before.items)) => items = before.items

C4_Witness ==
    /\ IsToggle(last)
    /\ last.id \notin Ids(before.items)
    /\ Len(items) >= 1

\* C5: removing an id that is in the list makes the list one shorter and the
\* id is gone; removing an id that is not in the list changes nothing.
C5_Remove ==
    last.op = "removePress" =>
        IF last.id \in Ids(before.items)
        THEN /\ Len(items) = Len(before.items) - 1
             /\ last.id \notin Ids(items)
        ELSE items = before.items

C5_Witness ==
    /\ last.op = "removePress"
    /\ last.id \in Ids(before.items)
    /\ Len(before.items) >= 2

\* C6: the pending view and the completed view split the list: every record
\* is in exactly one of them, the views hold nothing else, and each lists its
\* records in the order of the store's list.
C6_ViewsPartition ==
    LET p == pending(items)
        c == completed(items)
    IN  /\ \A i \in 1..Len(items) : Count(p, items[i]) + Count(c, items[i]) = 1
        /\ Range(p) \cap Range(c) = {}
        /\ Range(p) \cup Range(c) = Range(items)
        /\ Len(p) + Len(c) = Len(items)
        /\ \A i \in 1..Len(p) : ~p[i].done
        /\ \A i \in 1..Len(c) : c[i].done
        /\ IsSubseq(p, items)
        /\ IsSubseq(c, items)

C6_Witness ==
    /\ Len(items) >= 2
    /\ pending(items) # <<>>
    /\ completed(items) # <<>>
    /\ Len(addLog) = Len(items)
    /\ last.op = "undoPress"

\* C7: no two records of the list have the same id, and no id is given to
\* two records over the life of the process, removed ones included.
C7_IdsUnique ==
    /\ \A i, j \in 1..Len(items) : i # j => items[i].id # items[j].id
    /\ \A i, j \in 1..Len(addLog) : i # j => addLog[i] # addLog[j]
    /\ Ids(items) \subseteq Range(addLog)

C7_Witness ==
    /\ Len(addLog) >= 2
    /\ addLog[1] \notin Ids(items)
    /\ addLog[Len(addLog)] \in Ids(items)

\* C8: dismissing the intro banner leaves showBanner false, also when it was
\* false already, and no step of any handler makes showBanner true again.
C8_BannerOneWay ==
    /\ [](last.op = "bannerGotIt" => ~ui.showBanner)
    /\ [][~ui.showBanner => ~ui'.showBanner]_vars

C8_Witness ==
    /\ last.op = "bannerGotIt"
    /\ ~before.ui.showBanner
    /\ ~ui.showBanner

\* C9: every record's title is non-empty and has no white space at either end.
C9_TitlesTrimmed ==
    \A i \in 1..Len(items) :
        LET t == items[i].title IN
        /\ t # <<>>
        /\ ~IsSpace(t[1])
        /\ ~IsSpace(t[Len(t)])

C9_Witness ==
    /\ last.op = "addTask"
    /\ last.text = <<" ", "a", " ">>
    /\ Len(items) >= 1
    /\ items[1] \notin Range(before.items)

C11_RecordFrame ==
    /\ \A i \in 1..Len(before.items) : \A j \in 1..Len(items) :
          before.items[i].id = items[j].id =>
              /\ items[j].title = before.items[i].title
              /\ items[j].createdAt = before.items[i].createdAt
              /\ items[j].done # before.items[i].done
                    => (IsToggle(last) /\ last.id = items[j].id)
    /\ Ids(items) \ Ids(before.items) # {} => last.op = "addTask"
    /\ \A id \in Ids(before.items) \ Ids(items) :
          last.op = "removePress" /\ last.id = id

C11_Witness ==
    /\ IsToggle(last)
    /\ Len(items) >= 2
    /\ \E j \in 1..Len(items) :
          /\ items[j].id = last.id
          /\ items[j].createdAt = MaxClock
          /\ \E i \in 1..Len(before.items) :
                /\ before.items[i].id = last.id
                /\ before.items[i].done # items[j].done

\* C12: a toggle of an id that is in the list flips the done flag of the
\* record with that id and of no other: same length, same order, every other
\* record as it was.
C12_ToggleFlipsOne ==
    (IsToggle(last) /\ last.id \in Ids(before.items)) =>
        /\ Len(items) = Len(before.items)
        /\ \A i \in 1..Len(items) :
              items[i] =
                 IF before.items[i].id = last.id
                 THEN [before.items[i] EXCEPT !.done = ~before.items[i].done]
                 ELSE before.items[i]

C12_Witness ==
    /\ IsToggle(last)
    /\ last.id \in Ids(before.items)
    /\ Len(before.items) >= 2
    /\ \E i \in 1..Len(items) : items[i].id # last.id /\ items[i].done

UiFlags ==
    {"darkMode", "showBanner", "doneNotificationVisible", "undoNotificationVisible"}

\* the flag each ui transition is about
OwnFlag ==
    [ t \in { "ui/toggleDarkMode", "ui/dismissBanner",
              "ui/showDoneNotification", "ui/dismissDoneNotification",
              "ui/showUndoNotification", "ui/dismissUndoNotification" } |->
        CASE t = "ui/toggleDarkMode" -> "darkMode"
          [] t = "ui/dismissBanner" -> "showBanner"
          [] t \in {"ui/showDoneNotification", "ui/dismissDoneNotification"}
                -> "doneNotificationVisible"
          [] OTHER -> "undoNotificationVisible" ]

\* u and v agree on every flag but f
SameExcept(u, v, f) == \A g \in UiFlags \ {f} : u[g] = v[g]

\* the flag the Got-it and switch handlers are about
HandlerFlag ==
    [ op \in {"darkModeSwitch", "bannerGotIt", "doneGotIt", "undoGotIt"} |->
        CASE op = "darkModeSwitch" -> "darkMode"
          [] op = "bannerGotIt" -> "showBanner"
          [] op = "doneGotIt" -> "doneNotificationVisible"
          [] OTHER -> "undoNotificationVisible" ]

\* C13: dispatched on any reachable store state, each of the six ui
\* transitions leaves the task list and the three flags that are not its own
\* as they are, and addTodo, toggleTodo and removeTodo leave all four flags as
\* they are; so a handler changes no flag but those of the ui transitions it
\* dispatches, and the list only if it dispatches a todos transition.
C13_SlicesIndependent ==
    /\ \A t \in DOMAIN OwnFlag :
          LET next == rootReducer(Snapshot, Action(t, 0)) IN
          /\ next.items = items
          /\ SameExcept(next.ui, ui, OwnFlag[t])
    /\ \A id \in IdPool :
          /\ rootReducer(Snapshot, Action("todos/toggleTodo", id)).ui = ui
          /\ rootReducer(Snapshot, Action("todos/removeTodo", id)).ui = ui
          /\ \A t \in {x \in TitleInputs : ~IsBlank(x)} : \A now \in Times :
                rootReducer(Snapshot,
                            Action("todos/addTodo", prepare(t, id, now))).ui = ui
    /\ last.op \in {"addTask", "removePress"} => ui = before.ui
    /\ last.op \in DOMAIN HandlerFlag =>
          /\ items = before.items
          /\ SameExcept(ui, before.ui, HandlerFlag[last.op])
    /\ last.op = "handleDone" => SameExcept(ui, before.ui, "doneNotificationVisible")
    /\ last.op = "undoPress" => SameExcept(ui, before.ui, "undoNotificationVisible")

C13_Witness ==
    /\ last.op = "undoGotIt"
    /\ before.ui.undoNotificationVisible
    /\ ~ui.undoNotificationVisible
    /\ ui.doneNotificationVisible
    /\ ui.darkMode
    /\ Len(items) >= 1

\* the done flag of the record with that id, FALSE if there is none
DoneOf(its, id) == \E i \in 1..Len(its) : its[i].id = id /\ its[i].done

\* C14: with every press made on a rendered row, a DONE press finds its
\* record in the list with done = false and leaves it done with the done
\* notification showing; an Undo press finds its record done and leaves it
\* not done with the undo notification showing. The toggle and the
\* notification are one step: no state has the one without the other.
C14_PressesMatchRows ==
    /\ last.op = "handleDone" =>
          /\ last.id \in Ids(before.items)
          /\ ~DoneOf(before.items, last.id)
          /\ DoneOf(items, last.id)
          /\ ui.doneNotificationVisible
    /\ last.op = "undoPress" =>
          /\ last.id \in Ids(before.items)
          /\ DoneOf(before.items, last.id)
          /\ last.id \in Ids(items)
          /\ ~DoneOf(items, last.id)
          /\ ui.undoNotificationVisible

C14_Witness ==
    /\ last.op = "undoPress"
    /\ last.again
    /\ Len(items) >= 2
    /\ ~before.ui.undoNotificationVisible
    /\ ui.undoNotificationVisible

\* C15: the done notification, once a DONE press has set it, goes away only
\* by its own Got-it (dismissDoneNotification), not by an Undo or a Remove of
\* the completed task; the undo notification goes away only by its own
\* Got-it (dismissUndoNotification), not by a later DONE press.
C15_NotificationsLatch ==
    /\ last.op = "handleDone" => ui.doneNotificationVisible
    /\ last.op = "undoPress" => ui.undoNotificationVisible
    /\ (before.ui.doneNotificationVisible /\ ~ui.doneNotificationVisible)
          => last.op = "doneGotIt"
    /\ (before.ui.undoNotificationVisible /\ ~ui.undoNotificationVisible)
          => last.op = "undoGotIt"

C15_Witness ==
    /\ last.op = "undoPress"
    /\ DoneOf(before.items, last.id)
    /\ before.ui.doneNotificationVisible
    /\ ui.doneNotificationVisible
    /\ ui.undoNotificationVisible

====
